---- MODULE Spec2Model ----
(***************************************************************************)
(* Model of qbittorrent-orphan-cleaner.py: scan_torrents (the live-file    *)
(* set built from the daemon's torrents, the directory walk, the orphan    *)
(* list) and main (sort, report, the two confirmations, the deletion       *)
(* loop).  Path strings are sequences of one-character strings, so that    *)
(* os.path.join and os.path.dirname act on text as posixpath does.         *)
(***************************************************************************)
EXTENDS Integers, Sequences, FiniteSets, TLC

(* ------------------------------------------------------------------ *)
(* posixpath on character sequences                                    *)
(* ------------------------------------------------------------------ *)
SEP == "/"

StartsWithSep(p) == Len(p) > 0 /\ p[1] = SEP

EndsWithSep(p) == Len(p) > 0 /\ p[Len(p)] = SEP

\* posixpath.join(a, b): an absolute b replaces a; otherwise b is appended,
\* with a separator unless a is empty or already ends with one.
join(a, b) ==
    IF StartsWithSep(b) THEN b
    ELSE IF Len(a) = 0 \/ EndsWithSep(a) THEN a \o b
    ELSE a \o <<SEP>> \o b

\* str.rfind('/') + 1: the length of the prefix that ends at the last separator.
RECURSIVE RfindSep(_, _)
RfindSep(p, n) ==
    IF n = 0 THEN 0
    ELSE IF p[n] = SEP THEN n
    ELSE RfindSep(p, n - 1)

\* str.rstrip('/').
RECURSIVE RStripSep(_)
RStripSep(p) ==
    IF EndsWithSep(p) THEN RStripSep(SubSeq(p, 1, Len(p) - 1)) ELSE p

AllSep(p) == \A n \in 1..Len(p) : p[n] = SEP

\* posixpath.dirname(p).
dirname(p) ==
    LET head == SubSeq(p, 1, RfindSep(p, Len(p)))
    IN  IF Len(head) > 0 /\ ~AllSep(head) THEN RStripSep(head) ELSE head

\* posixpath.basename(p).
basename(p) == SubSeq(p, RfindSep(p, Len(p)) + 1, Len(p))

\* str.split('/').
RECURSIVE Split(_, _, _)
Split(p, n, cur) ==
    IF n > Len(p) THEN <<cur>>
    ELSE IF p[n] = SEP THEN <<cur>> \o Split(p, n + 1, <<>>)
    ELSE Split(p, n + 1, Append(cur, p[n]))

\* The component loop of posixpath.normpath.
RECURSIVE NormComps(_, _, _, _)
NormComps(comps, n, new, initial) ==
    IF n > Len(comps) THEN new
    ELSE LET comp == comps[n]
         IN  IF comp = <<>> \/ comp = <<".">> THEN NormComps(comps, n + 1, new, initial)
             ELSE IF comp # <<".", ".">>
                     \/ (initial = 0 /\ Len(new) = 0)
                     \/ (Len(new) > 0 /\ new[Len(new)] = <<".", ".">>)
                  THEN NormComps(comps, n + 1, Append(new, comp), initial)
             ELSE IF Len(new) > 0
                  THEN NormComps(comps, n + 1, SubSeq(new, 1, Len(new) - 1), initial)
             ELSE NormComps(comps, n + 1, new, initial)

\* '/'.join(comps).
RECURSIVE JoinSep(_)
JoinSep(comps) ==
    IF Len(comps) = 0 THEN <<>>
    ELSE IF Len(comps) = 1 THEN comps[1]
    ELSE comps[1] \o <<SEP>> \o JoinSep(Tail(comps))

InitialSlashes(p) ==
    IF ~StartsWithSep(p) THEN 0
    ELSE IF Len(p) >= 2 /\ p[2] = SEP /\ ~(Len(p) >= 3 /\ p[3] = SEP) THEN 2
    ELSE 1

\* posixpath.normpath(p): the canonical text of a path.
normpath(p) ==
    IF Len(p) = 0 THEN <<".">>
    ELSE LET initial == InitialSlashes(p)
             body    == JoinSep(NormComps(Split(p, 1, <<>>), 1, <<>>, initial))
             full    == [n \in 1..initial |-> SEP] \o body
         IN  IF Len(full) = 0 THEN <<".">> ELSE full

(* ------------------------------------------------------------------ *)
(* The world: path texts, the daemon's torrents, the filesystem         *)
(* ------------------------------------------------------------------ *)
D       == <<"/", "d">>
DSlash  == <<"/", "d", "/">>
DM      == <<"/", "d", "/", "m">>
DDM     == <<"/", "d", "/", "/", "m">>
ESlash  == <<"/", "e", "/">>
F       == <<"/", "f">>
FSlash  == <<"/", "f", "/">>
DA      == <<"/", "d", "/", "a">>
DB      == <<"/", "d", "/", "b">>
DMA     == <<"/", "d", "/", "m", "/", "a">>

\* Bounds of the model.
MaxTorrents        == 3
MaxPathTorrents    == 2
MaxMainTorrents    == 1
MaxFilesPerTorrent == 1
MaxSize            == 2

\* Directories that exist (canonical paths); /f is a regular file, /e is absent.
Dirs == {D, DM}

\* Regular files that may lie under /d (canonical paths).
CandidateFiles == {DA, DB, DMA}

Sizes == 0..MaxSize

\* Sequences over S of length lo..hi.
SeqsOf(S, lo, hi) == UNION {[1..n -> S] : n \in lo..hi}

\* Torrent records as torrents_info() returns them: save_path and file names.
TorrentRecords(savePaths, fileLists) == [save_path : savePaths, files : fileLists]

\* Save paths and file names as a daemon may write them: plain, with a trailing
\* separator, with a doubled separator, with a './' segment, absolute.
PathSavePaths == {D, DSlash, DM, DDM}
PathFileNames == {<<"a">>, <<".", "/", "a">>, <<"m", "/", "a">>, DA}

PathDaemons ==
    SeqsOf(TorrentRecords(PathSavePaths, SeqsOf(PathFileNames, 0, MaxFilesPerTorrent)),
           0, MaxPathTorrents)

FetchDaemons ==
    SeqsOf(TorrentRecords({D, DM, DSlash}, {<<(<<"a">>)>>, <<(<<"m", "/", "a">>)>>}),
           0, MaxTorrents)

MainDaemons ==
    SeqsOf(TorrentRecords({D}, {<<(<<"a">>)>>, <<(<<"m", "/", "a">>)>>}), 0, MaxMainTorrents)

\* get_connection_info always returns download_dir with a trailing separator.
DownloadDirs == {DSlash, ESlash, FSlash}

\* What the operator may type at the two prompts.
YES_    == <<"y", "e", "s">>
DELETE_ == <<"D", "E", "L", "E", "T", "E">>
Answers  == {YES_, <<"Y", "E", "S">>, <<" ", "Y", "e", "s", " ">>, <<"n", "o">>, <<"y">>, <<>>}
Confirms == {DELETE_, <<"d", "e", "l", "e", "t", "e">>, <<"D", "E", "L", "E", "T", "E", " ">>, <<>>}

VARIABLES
    daemon,          \* the torrents the daemon tracks, in torrents_info() order
    download_dir,    \* the target directory as get_connection_info returned it
    fs_files,        \* regular files on disk (canonical paths)
    unreadable,      \* directories whose listing is denied
    pc,              \* position in main / scan_torrents
    torrents, i, save_path, torrent_files, j, parent,
    active_files, active_dirs,
    warned,          \* indices of torrents whose file list raised (line 171)
    walk_stack, root, files, file_count,
    orphaned_files, total_orphaned_size,
    getsize_log,     \* what os.path.getsize returned for each orphan: a size or "OSError"
    scan_result,     \* "pending", "None" (None, None) or "list" (a pair)
    reported, report_file,
    response, confirm,
    k, deleted_count, deleted_size, failed_count,
    remove_log,      \* the os.remove calls made, in order: <<path, ok>>
    out,             \* diagnostics printed
    exit_code

envVars  == <<daemon, download_dir, fs_files, unreadable>>
metaVars == <<torrents, i, save_path, torrent_files, j, parent, active_files, active_dirs, warned>>
walkVars == <<walk_stack, root, files, file_count, orphaned_files, total_orphaned_size,
              getsize_log>>
mainVars == <<reported, report_file, response, confirm, k, deleted_count, deleted_size,
              failed_count, remove_log>>
vars == <<envVars, pc, metaVars, walkVars, scan_result, mainVars, out, exit_code>>

InitProgram ==
    /\ pc = "connect"
    /\ torrents = <<>> /\ i = 0 /\ save_path = <<>> /\ torrent_files = <<>> /\ j = 0
    /\ parent = <<>> /\ active_files = {} /\ active_dirs = {} /\ warned = {}
    /\ walk_stack = <<>> /\ root = <<>> /\ files = {} /\ file_count = 0
    /\ orphaned_files = <<>> /\ total_orphaned_size = 0 /\ getsize_log = <<>>
    /\ scan_result = "pending"
    /\ reported = <<>> /\ report_file = <<>> /\ response = <<>> /\ confirm = <<>>
    /\ k = 0 /\ deleted_count = 0 /\ deleted_size = 0 /\ failed_count = 0
    /\ remove_log = <<>>
    /\ out = {} /\ exit_code = -1

\* Few torrents, every target directory, every disk content.
Init ==
    /\ daemon \in MainDaemons
    /\ download_dir \in DownloadDirs
    /\ fs_files \in SUBSET CandidateFiles
    /\ unreadable \in SUBSET Dirs
    /\ InitProgram

\* Save paths and file names in every written form, over a fixed disk.
InitPaths ==
    /\ daemon \in PathDaemons
    /\ download_dir = DSlash
    /\ fs_files = {DA, DMA}
    /\ unreadable = {}
    /\ InitProgram

\* Up to MaxTorrents torrents, any of whose file lists may fail, over a fixed disk.
InitFetch ==
    /\ daemon \in FetchDaemons
    /\ download_dir = DSlash
    /\ fs_files = {DA}
    /\ unreadable = {}
    /\ InitProgram

(* ------------------------------------------------------------------ *)
(* Filesystem calls                                                    *)
(* ------------------------------------------------------------------ *)
\* The file or directory a path text names: the kernel skips empty and '.'
\* components, as normpath does (no symbolic links in this world).
Resolve(p) == normpath(p)

\* os.path.exists(p): stat succeeds. A regular file named with a trailing
\* separator is ENOTDIR.
exists(p, disk) ==
    \/ Resolve(p) \in Dirs
    \/ (Resolve(p) \in disk \cup {F} /\ ~EndsWithSep(p))

\* scandir(p) succeeds: p names a directory whose listing is permitted.
CanList(p, denied) == Resolve(p) \in Dirs /\ Resolve(p) \notin denied

\* Names of the regular files and of the subdirectories in directory p.
FilesIn(p, disk) == {basename(f) : f \in {g \in disk : dirname(g) = Resolve(p)}}
DirsIn(p) == {basename(d) : d \in {e \in Dirs : dirname(e) = Resolve(p)}}

\* A set of paths as a sequence, in some order (scandir order is unspecified).
RECURSIVE SetToSeq(_)
SetToSeq(S) ==
    IF S = {} THEN <<>>
    ELSE LET x == CHOOSE y \in S : TRUE IN <<x>> \o SetToSeq(S \ {x})

(* ------------------------------------------------------------------ *)
(* scan_torrents: the live-file set                                    *)
(* ------------------------------------------------------------------ *)
\* main, lines 239-242: test_connection returns a client or None.
Connect ==
    /\ pc = "connect"
    /\ \E connected \in BOOLEAN :
          IF connected
          THEN /\ pc' = "torrents_info"
               /\ UNCHANGED <<out, exit_code>>
          ELSE /\ out' = out \cup {"Failed to connect to qBittorrent"}
               /\ exit_code' = 1
               /\ pc' = "done"
    /\ UNCHANGED <<envVars, metaVars, walkVars, scan_result, mainVars>>

\* Lines 148-150 and 175-177: torrents_info() returns the daemon's torrents, or
\* raises and scan_torrents returns (None, None).
TorrentsInfo ==
    /\ pc = "torrents_info"
    /\ \E raised \in BOOLEAN :
          IF raised
          THEN /\ out' = out \cup {"ERROR: Failed to retrieve torrent information"}
               /\ scan_result' = "None"
               /\ pc' = "check_result"
               /\ UNCHANGED <<torrents, i>>
          ELSE /\ torrents' = daemon
               /\ i' = 1
               /\ pc' = "for_torrent"
               /\ UNCHANGED <<out, scan_result>>
    /\ UNCHANGED <<envVars, save_path, torrent_files, j, parent, active_files, active_dirs,
                   warned, walkVars, mainVars, exit_code>>

\* A loop that gives up at the first file list that raises.
AfterFilesErrorBreak(idx, n) == n + 1

\* Lines 170-171: the index the torrent loop goes on with after the file list
\* of torrent idx raised, in a list of n torrents.
AfterFilesError(idx, n) == idx + 1

\* Lines 152-160, 170-173: the next torrent. torrent.files may raise: the
\* torrent is skipped with a warning.
ForTorrent ==
    /\ pc = "for_torrent"
    /\ IF i > Len(torrents)
       THEN /\ pc' = "exists"
            /\ UNCHANGED <<i, save_path, torrent_files, j, warned, out>>
       ELSE /\ save_path' = torrents[i].save_path
            /\ \E raised \in BOOLEAN :
                  IF raised
                  THEN /\ warned' = warned \cup {i}
                       /\ out' = out \cup {"Warning: Could not get files for torrent"}
                       /\ i' = AfterFilesError(i, Len(torrents))
                       /\ pc' = "for_torrent"
                       /\ UNCHANGED <<torrent_files, j>>
                  ELSE /\ torrent_files' = torrents[i].files
                       /\ j' = 1
                       /\ pc' = "for_file"
                       /\ UNCHANGED <<i, warned, out>>
    /\ UNCHANGED <<envVars, torrents, parent, active_files, active_dirs, walkVars,
                   scan_result, mainVars, exit_code>>

\* Line 162: the text stored in active_files for a file of a torrent.
FilePath(save, name) == join(save, name)

\* Lines 161-166: the next file of the torrent.
ForFile ==
    /\ pc = "for_file"
    /\ IF j > Len(torrent_files)
       THEN /\ i' = i + 1
            /\ pc' = "for_torrent"
            /\ UNCHANGED <<active_files, parent>>
       ELSE /\ active_files' = active_files \cup {FilePath(save_path, torrent_files[j])}
            /\ parent' = dirname(FilePath(save_path, torrent_files[j]))
            /\ pc' = "while_test"
            /\ UNCHANGED i
    /\ UNCHANGED <<envVars, torrents, save_path, torrent_files, j, active_dirs, warned,
                   walkVars, scan_result, mainVars, out, exit_code>>

\* Line 167: while parent and parent != save_path.
ParentGuard(par, save) == par # <<>> /\ par # save

WhileTest ==
    /\ pc = "while_test"
    /\ IF ParentGuard(parent, save_path)
       THEN /\ pc' = "while_body"
            /\ UNCHANGED j
       ELSE /\ j' = j + 1
            /\ pc' = "for_file"
    /\ UNCHANGED <<envVars, torrents, i, save_path, torrent_files, parent, active_files,
                   active_dirs, warned, walkVars, scan_result, mainVars, out, exit_code>>

\* Lines 168-169.
WhileBody ==
    /\ pc = "while_body"
    /\ active_dirs' = active_dirs \cup {parent}
    /\ parent' = dirname(parent)
    /\ pc' = "while_test"
    /\ UNCHANGED <<envVars, torrents, i, save_path, torrent_files, j, active_files, warned,
                   walkVars, scan_result, mainVars, out, exit_code>>

(* ------------------------------------------------------------------ *)
(* scan_torrents: the directory walk                                   *)
(* ------------------------------------------------------------------ *)
\* Lines 180-187: a missing target directory prints an error and returns the
\* empty list and 0.
ExistsCheck ==
    /\ pc = "exists"
    /\ orphaned_files' = <<>>
    /\ total_orphaned_size' = 0
    /\ IF ~exists(download_dir, fs_files)
       THEN /\ out' = out \cup {"ERROR: Directory does not exist"}
            /\ scan_result' = "list"
            /\ pc' = "check_result"
            /\ UNCHANGED walk_stack
       ELSE /\ walk_stack' = <<download_dir>>
            /\ pc' = "walk_dir"
            /\ UNCHANGED <<out, scan_result>>
    /\ UNCHANGED <<envVars, metaVars, root, files, file_count, getsize_log, mainVars,
                   exit_code>>

\* Line 191, os.walk(download_dir) top-down with onerror=None: the next
\* directory is listed; a directory whose listing fails is skipped inside
\* os.walk, which raises nothing, so the handlers of lines 210-216 are not
\* entered for it. Lines 208, 218 when no directory is left.
WalkDir ==
    /\ pc = "walk_dir"
    /\ IF walk_stack = <<>>
       THEN /\ scan_result' = "list"
            /\ pc' = "check_result"
            /\ UNCHANGED <<walk_stack, root, files>>
       ELSE LET top == Head(walk_stack)
            IN  IF CanList(top, unreadable)
                THEN /\ root' = top
                     /\ files' = FilesIn(top, fs_files)
                     /\ walk_stack' = SetToSeq({join(top, d) : d \in DirsIn(top)})
                                         \o Tail(walk_stack)
                     /\ pc' = "walk_file"
                     /\ UNCHANGED scan_result
                ELSE /\ walk_stack' = Tail(walk_stack)
                     /\ UNCHANGED <<root, files, scan_result, pc>>
    /\ UNCHANGED <<envVars, metaVars, file_count, orphaned_files, total_orphaned_size,
                   getsize_log, mainVars, out, exit_code>>

\* Line 198: full_path not in active_files.
IsOrphan(full_path, active) == full_path \notin active

\* What os.path.getsize may return: a size, or OSError.
GetsizeResults == [ok : {TRUE}, size : Sizes] \cup [ok : {FALSE}, size : {0}]

\* A walk that drops the file whose size cannot be read.
OrphansAfterSkipUnreadable(orphans, full_path, st) ==
    IF st.ok THEN Append(orphans, <<full_path, st.size>>) ELSE orphans

\* Lines 201 and 206: the orphan list after getsize of full_path returned st.
OrphansAfter(orphans, full_path, st) ==
    Append(orphans, <<full_path, IF st.ok THEN st.size ELSE 0>>)

\* Line 202: the total after getsize returned st.
TotalAfter(total, st) == IF st.ok THEN total + st.size ELSE total

\* Lines 192-206: the next file of the directory, in scandir order.
WalkFile ==
    /\ pc = "walk_file"
    /\ IF files = {}
       THEN /\ pc' = "walk_dir"
            /\ UNCHANGED <<files, file_count, orphaned_files, total_orphaned_size,
                           getsize_log, out>>
       ELSE \E file \in files :
              LET full_path == join(root, file)
              IN  /\ files' = files \ {file}
                  /\ file_count' = file_count + 1
                  /\ pc' = "walk_file"
                  /\ IF IsOrphan(full_path, active_files)
                     THEN \E st \in GetsizeResults :
                            /\ getsize_log' = Append(getsize_log, <<full_path, st>>)
                            /\ orphaned_files' = OrphansAfter(orphaned_files, full_path, st)
                            /\ total_orphaned_size' = TotalAfter(total_orphaned_size, st)
                            /\ out' = IF st.ok THEN out
                                      ELSE out \cup {"Warning: Cannot access file"}
                     ELSE UNCHANGED <<orphaned_files, total_orphaned_size, getsize_log, out>>
    /\ UNCHANGED <<envVars, metaVars, walk_stack, root, scan_result, mainVars, exit_code>>

(* ------------------------------------------------------------------ *)
(* main: sort, report, confirmations, deletion                         *)
(* ------------------------------------------------------------------ *)
\* Lines 245-250: an error value from the scan ends the run with exit 1.
CheckResult ==
    /\ pc = "check_result"
    /\ IF scan_result = "None"
       THEN /\ out' = out \cup {"Script encountered an error"}
            /\ exit_code' = 1
            /\ pc' = "done"
       ELSE /\ pc' = "sort"
            /\ UNCHANGED <<out, exit_code>>
    /\ UNCHANGED <<envVars, metaVars, walkVars, scan_result, mainVars>>

\* A descending sort that puts x before the entries of its own size.
RECURSIVE InsertDescTiesFirst(_, _)
InsertDescTiesFirst(s, x) ==
    IF s = <<>> THEN <<x>>
    ELSE IF Head(s)[2] > x[2] THEN <<Head(s)>> \o InsertDescTiesFirst(Tail(s), x)
    ELSE <<x>> \o s

\* list.sort(key=lambda x: x[1], reverse=True) is stable: x goes behind every
\* entry that is at least as large.
RECURSIVE InsertDesc(_, _)
InsertDesc(s, x) ==
    IF s = <<>> THEN <<x>>
    ELSE IF Head(s)[2] >= x[2] THEN <<Head(s)>> \o InsertDesc(Tail(s), x)
    ELSE <<x>> \o s

RECURSIVE SortedPrefix(_, _)
SortedPrefix(s, n) ==
    IF n = 0 THEN <<>> ELSE InsertDesc(SortedPrefix(s, n - 1), s[n])

\* Line 253.
SortBySizeDesc(s) == SortedPrefix(s, Len(s))

Sort ==
    /\ pc = "sort"
    /\ orphaned_files' = SortBySizeDesc(orphaned_files)
    /\ pc' = "report"
    /\ UNCHANGED <<envVars, metaVars, walk_stack, root, files, file_count,
                   total_orphaned_size, getsize_log, scan_result, mainVars, out, exit_code>>

\* Line 265: the screen lists the first 20 entries.
TopShown == 20

\* Lines 255-289 and 317-318: the report on screen (the count, the total and
\* the largest entries) and in the report file (every entry; the write may
\* fail), or the clean message for an empty list.
Report ==
    /\ pc = "report"
    /\ reported' = SubSeq(orphaned_files, 1,
                          IF Len(orphaned_files) < TopShown THEN Len(orphaned_files)
                          ELSE TopShown)
    /\ IF orphaned_files # <<>>
       THEN /\ \E written \in BOOLEAN :
                 IF written
                 THEN /\ report_file' = orphaned_files
                      /\ UNCHANGED out
                 ELSE /\ out' = out \cup {"Warning: Could not save report file"}
                      /\ UNCHANGED report_file
            /\ pc' = "ask_delete"
       ELSE /\ out' = out \cup {"No orphaned files found"}
            /\ pc' = "logout"
            /\ UNCHANGED report_file
    /\ UNCHANGED <<envVars, metaVars, walkVars, scan_result, response, confirm, k,
                   deleted_count, deleted_size, failed_count, remove_log, exit_code>>

\* str.lower() on the letters of the answers.
LowerChar(c) ==
    CASE c = "Y" -> "y" [] c = "E" -> "e" [] c = "S" -> "s"
      [] c = "D" -> "d" [] c = "L" -> "l" [] c = "T" -> "t"
      [] OTHER -> c

lower(s) == [n \in 1..Len(s) |-> LowerChar(s[n])]

\* str.strip() of blanks.
RECURSIVE strip(_)
strip(s) ==
    IF Len(s) > 0 /\ s[1] = " " THEN strip(Tail(s))
    ELSE IF Len(s) > 0 /\ s[Len(s)] = " " THEN strip(SubSeq(s, 1, Len(s) - 1))
    ELSE s

\* Line 293: response == 'yes'.
SaidYes(resp) == resp = YES_

\* Line 292-293: the yes/no question.
AskDelete ==
    /\ pc = "ask_delete"
    /\ \E typed \in Answers :
          /\ response' = strip(lower(typed))
          /\ pc' = IF SaidYes(strip(lower(typed))) THEN "ask_confirm" ELSE "logout"
    /\ UNCHANGED <<envVars, metaVars, walkVars, scan_result, reported, report_file, confirm,
                   k, deleted_count, deleted_size, failed_count, remove_log, out, exit_code>>

\* A confirmation compared without regard to case.
ConfirmedAnyCase(conf) == lower(conf) = lower(DELETE_)

\* Line 295: confirm == 'DELETE'.
Confirmed(conf) == conf = DELETE_

\* Lines 294-300 and 315-316: the confirmation token.
AskConfirm ==
    /\ pc = "ask_confirm"
    /\ \E typed \in Confirms :
          /\ confirm' = typed
          /\ IF Confirmed(typed)
             THEN /\ deleted_count' = 0
                  /\ deleted_size' = 0
                  /\ failed_count' = 0
                  /\ k' = 1
                  /\ pc' = "delete"
                  /\ UNCHANGED out
             ELSE /\ out' = out \cup {"Deletion cancelled"}
                  /\ pc' = "logout"
                  /\ UNCHANGED <<k, deleted_count, deleted_size, failed_count>>
    /\ UNCHANGED <<envVars, metaVars, walkVars, scan_result, reported, report_file, response,
                   remove_log, exit_code>>

\* Lines 304-305 and 309: the counters after os.remove of an entry of the given
\* size returned (removed) or raised.
CountersAfter(c, size, removed) ==
    IF removed
    THEN [deleted_count |-> c.deleted_count + 1,
          deleted_size  |-> c.deleted_size + size,
          failed_count  |-> c.failed_count]
    ELSE [deleted_count |-> c.deleted_count,
          deleted_size  |-> c.deleted_size,
          failed_count  |-> c.failed_count + 1]

\* A deletion loop that stops at the first removal that raises.
AfterRemoveAbort(idx, n, removed) == IF removed THEN idx + 1 ELSE n + 1

\* Lines 308-310: the position the deletion loop goes on with after entry idx
\* of n, whose removal returned (removed) or raised.
AfterRemove(idx, n, removed) == idx + 1

\* Lines 301-314: os.remove of the next entry; it raises when the file is gone
\* or the removal is denied.
Delete ==
    /\ pc = "delete"
    /\ IF k > Len(orphaned_files)
       THEN /\ out' = out \cup {"Deleted"} \cup
                        (IF failed_count > 0 THEN {"Failed to delete"} ELSE {})
            /\ pc' = "logout"
            /\ UNCHANGED <<fs_files, k, deleted_count, deleted_size, failed_count,
                           remove_log>>
       ELSE LET file_path == orphaned_files[k][1]
                size      == orphaned_files[k][2]
            IN  \E allowed \in BOOLEAN :
                  LET removed == allowed /\ Resolve(file_path) \in fs_files
                      c == CountersAfter([deleted_count |-> deleted_count,
                                          deleted_size  |-> deleted_size,
                                          failed_count  |-> failed_count], size, removed)
                  IN  /\ fs_files' = IF removed THEN fs_files \ {Resolve(file_path)}
                                     ELSE fs_files
                      /\ remove_log' = Append(remove_log, <<file_path, removed>>)
                      /\ deleted_count' = c.deleted_count
                      /\ deleted_size' = c.deleted_size
                      /\ failed_count' = c.failed_count
                      /\ out' = IF removed THEN out ELSE out \cup {"Error deleting"}
                      /\ k' = AfterRemove(k, Len(orphaned_files), removed)
                      /\ pc' = "delete"
    /\ UNCHANGED <<daemon, download_dir, unreadable, metaVars, walkVars, scan_result,
                   reported, report_file, response, confirm, exit_code>>

\* Lines 320-326: logout and the normal end of the run.
Logout ==
    /\ pc = "logout"
    /\ out' = out \cup {"Done!"}
    /\ exit_code' = 0
    /\ pc' = "done"
    /\ UNCHANGED <<envVars, metaVars, walkVars, scan_result, mainVars>>

MainNext == CheckResult \/ Sort \/ Report \/ AskDelete \/ AskConfirm \/ Delete \/ Logout

(* ------------------------------------------------------------------ *)
(* Properties                                                          *)
(* ------------------------------------------------------------------ *)
MetaPcs == {"connect", "torrents_info", "for_torrent", "for_file", "while_test", "while_body"}

\* The scan returned its pair after walking the target directory.
ScanReturned == scan_result = "list" /\ "ERROR: Directory does not exist" \notin out

\* Indices of the torrents whose file list was retrieved.
Retrieved == {n \in 1..Len(torrents) : n \notin warned}

\* The joins of save path and file name over the torrents with index in S.
Joins(S) ==
    UNION {{join(torrents[n].save_path, torrents[n].files[x]) :
               x \in 1..Len(torrents[n].files)} : n \in S}

Paths(entries) == {entries[n][1] : n \in 1..Len(entries)}

RECURSIVE SumSizes(_)
SumSizes(entries) ==
    IF entries = <<>> THEN 0 ELSE Head(entries)[2] + SumSizes(Tail(entries))

\* Files on disk that the walk of download_dir reaches: every directory from
\* the target down to the file can be listed.
RECURSIVE Listable(_)
Listable(d) ==
    /\ d \in Dirs
    /\ d \notin unreadable
    /\ (d # Resolve(download_dir) => Listable(dirname(d)))

Walked == {f \in fs_files : Listable(dirname(f))}

\* C1: when the scan returns, a walked file is in the orphan list if and only
\* if its normalized path equals the normalized join of no retrieved record's
\* save path and file name, however save path and file name are written.
C1_OrphanIffNotLive ==
    (pc = "check_result" /\ ScanReturned) =>
        \A f \in Walked :
            (f \in {normpath(p) : p \in Paths(orphaned_files)})
                <=> (f \notin {normpath(p) : p \in Joins(Retrieved)})

\* C3: no file of a torrent that torrents_info returned is in the orphan list
\* or passed to os.remove, also when the file list of some torrent failed.
C3_TrackedFileNeverOrphaned ==
    \A p \in Paths(orphaned_files) \cup Paths(remove_log) :
        normpath(p) \notin {normpath(q) : q \in Joins(1..Len(torrents))}

\* C5: once the torrent loop is over, the live-file set holds the files of
\* every torrent but the warned ones, the scan is at the directory walk or past
\* it, and a failed file list has not made the scan return (None, None).
C5_SkipAndContinue ==
    (pc \notin MetaPcs /\ scan_result # "None") =>
        /\ active_files = Joins(Retrieved)
        /\ "Warning: Could not get files for torrent" \in out <=> warned # {}

\* C5 witness: three torrents, the middle one failed, the walk has begun.
C5_Witness ==
    /\ pc = "walk_dir"
    /\ Len(torrents) = 3
    /\ warned = {2}
    /\ Joins({1}) # {} /\ Joins({3}) # {} /\ Joins({1}) # Joins({3})
    /\ Joins({2}) \cap Joins({1, 3}) = {}

\* C10: the metadata phase of scan_torrents always finishes.
C10_MetadataPhaseEnds == <>(pc \notin MetaPcs)

\* C1 witness: the scan returned with one walked file live and one orphaned.
C1_Witness ==
    /\ pc = "check_result" /\ ScanReturned
    /\ \E f \in Walked : f \in Paths(orphaned_files)
    /\ \E f \in Walked : f \in active_files

\* The orphans in the order the walk found them, with the size recorded for
\* each: the size read, or 0 when the read failed.
Discovered ==
    [n \in 1..Len(getsize_log) |->
        <<getsize_log[n][1],
          IF getsize_log[n][2].ok THEN getsize_log[n][2].size ELSE 0>>]

Entries(s) == {s[n] : n \in 1..Len(s)}

\* C7: every walked file absent from the live-file set is in the orphan list
\* exactly once, with the size read or with 0 when the read failed, and
\* total_orphaned_size is the sum of the recorded sizes.
C7_OrphansRecorded ==
    /\ total_orphaned_size = SumSizes(orphaned_files)
    /\ Cardinality(Paths(orphaned_files)) = Len(orphaned_files)
    /\ Len(orphaned_files) = Len(getsize_log)
    /\ Entries(orphaned_files) = Entries(Discovered)
    /\ (pc = "check_result" /\ ScanReturned) =>
           Paths(orphaned_files) = {f \in Walked : f \notin active_files}

\* C7 witness: the scan returned an orphan whose size could not be read, an
\* orphan of positive size, and a live file.
C7_Witness ==
    /\ pc = "check_result" /\ ScanReturned
    /\ \E n \in 1..Len(getsize_log) : ~getsize_log[n][2].ok
    /\ \E n \in 1..Len(getsize_log) : getsize_log[n][2].ok /\ getsize_log[n][2].size > 0
    /\ \E f \in Walked : f \in active_files

PreSortPcs == MetaPcs \cup {"exists", "walk_dir", "walk_file", "check_result", "sort"}

\* Position of entry e in sequence s.
Pos(s, e) == CHOOSE n \in 1..Len(s) : s[n] = e

\* C8: from the sort on, the orphan list is a permutation of the entries the
\* walk found, by size descending, entries of equal size in discovery order;
\* it is the list reported (its first TopShown entries on screen), written to
\* the report file and deleted from.
C8_SortedStable ==
    (pc \notin PreSortPcs) =>
        /\ Len(orphaned_files) = Len(Discovered)
        /\ Entries(orphaned_files) = Entries(Discovered)
        /\ \A a, b \in 1..Len(orphaned_files) :
              a < b =>
                 /\ orphaned_files[a][2] >= orphaned_files[b][2]
                 /\ orphaned_files[a][2] = orphaned_files[b][2] =>
                       Pos(Discovered, orphaned_files[a]) < Pos(Discovered, orphaned_files[b])
        /\ pc # "report" =>
              /\ \A n \in 1..Len(orphaned_files) :
                    n <= TopShown => (n <= Len(reported) /\ reported[n] = orphaned_files[n])
              /\ Len(reported) <= Len(orphaned_files)
              /\ report_file \in {<<>>, orphaned_files}
              /\ \A n \in 1..Len(remove_log) : remove_log[n][1] = orphaned_files[n][1]

\* C8 witness: three entries were sorted, two of one size and a larger one
\* found after them, and the deletion has gone through the list.
C8_Witness ==
    /\ pc = "logout"
    /\ Len(orphaned_files) = 3
    /\ Len(remove_log) = 3
    /\ report_file = orphaned_files
    /\ Discovered[1][2] = Discovered[2][2]
    /\ Discovered[3][2] > Discovered[1][2]
    /\ orphaned_files = <<Discovered[3], Discovered[1], Discovered[2]>>

\* C2: a file is removed only after the answer 'yes' (as the program reads it)
\* and then the token 'DELETE', and only after the metadata fetch and the walk
\* are complete; with another answer to either prompt, or an error from the
\* scan, the run ends with no removal.
C2_RemovalNeedsBothConfirmations ==
    /\ remove_log # <<>> =>
          /\ response = YES_ /\ confirm = DELETE_
          /\ ScanReturned
          /\ i = Len(torrents) + 1 /\ walk_stack = <<>> /\ files = {}
    /\ confirm # <<>> => response = YES_
    /\ (pc = "done" /\ (response # YES_ \/ confirm # DELETE_ \/ scan_result = "None")) =>
          (remove_log = <<>> /\ deleted_count = 0)

\* C2 witness: a run that removed a file has ended.
C2_Witness ==
    /\ pc = "done"
    /\ \E n \in 1..Len(remove_log) : remove_log[n][2]

RECURSIVE CountRemoved(_, _)
CountRemoved(log, wanted) ==
    IF log = <<>> THEN 0
    ELSE (IF Head(log)[2] = wanted THEN 1 ELSE 0) + CountRemoved(Tail(log), wanted)

\* The sizes of the entries 1..n whose removal succeeded, summed.
RECURSIVE FreedSize(_)
FreedSize(n) ==
    IF n = 0 THEN 0
    ELSE (IF remove_log[n][2] THEN orphaned_files[n][2] ELSE 0) + FreedSize(n - 1)

\* C4: the deletion loop attempts each entry once, in list order, whatever the
\* earlier removals did; deleted_count and failed_count count the removals that
\* succeeded and failed, deleted_size sums the sizes of the removed entries
\* only, and at the end deleted_count + failed_count is the number of entries.
C4_DeletionTally ==
    /\ Len(remove_log) <= Len(orphaned_files)
    /\ \A n \in 1..Len(remove_log) : remove_log[n][1] = orphaned_files[n][1]
    /\ deleted_count = CountRemoved(remove_log, TRUE)
    /\ failed_count = CountRemoved(remove_log, FALSE)
    /\ deleted_size = FreedSize(Len(remove_log))
    /\ (pc \in {"logout", "done"} /\ response = YES_ /\ confirm = DELETE_) =>
          /\ Len(remove_log) = Len(orphaned_files)
          /\ deleted_count + failed_count = Len(orphaned_files)

\* C4 witness: of three entries only the removal of the second, of positive
\* size, failed.
C4_Witness ==
    /\ pc = "done"
    /\ Len(remove_log) = 3
    /\ remove_log[1][2] /\ ~remove_log[2][2] /\ remove_log[3][2]
    /\ orphaned_files[2][2] > 0
    /\ deleted_count = 2 /\ failed_count = 1
    /\ deleted_size = orphaned_files[1][2] + orphaned_files[3][2]

\* C6: a run whose target directory does not exist or is not a directory ends
\* with a non-zero exit and without the report of a clean directory.
C6_MissingDirectoryIsFatal ==
    (pc = "done" /\ ~exists(download_dir, fs_files)) =>
        (exit_code = 1 /\ "No orphaned files found" \notin out)

\* The diagnostics of lines 211-212 and 215, the only ones that tell of a
\* directory the walk could not read.
WalkWarnings ==
    {"ERROR: Permission denied while scanning directory", "ERROR: Failed to scan directory"}

\* C9: a run whose walk met a directory it could not list ends having told the
\* operator so.
C9_UnreadableSubtreeReported ==
    (pc = "done" /\ ScanReturned /\ \E d \in unreadable : d = D \/ Listable(dirname(d))) =>
        out \cap WalkWarnings # {}

ScanNext ==
    \/ TorrentsInfo \/ ForTorrent \/ ForFile \/ WhileTest \/ WhileBody
    \/ ExistsCheck \/ WalkDir \/ WalkFile

Next == Connect \/ ScanNext \/ MainNext

Spec == Init /\ [][Next]_vars

SpecPaths == InitPaths /\ [][Next]_vars

SpecFetch == InitFetch /\ [][Next]_vars

\* The program is one sequential thread: it keeps taking its next step.
FairSpecPaths == SpecPaths /\ WF_vars(Next)
====
